---- MODULE Spec2Model ----
(***************************************************************************)
(* Model of computing-portal/jupyterhub_config.py.                         *)
(*                                                                         *)
(* The file is a straight-line script: it obtains the configuration object *)
(* c and assigns one key after another.  Each assignment statement is one  *)
(* step of ExecStatement.  Once the last statement has run, the hub uses   *)
(* the record: it authenticates logins, spawns single-user servers and     *)
(* runs the cull-idle service declared in c.JupyterHub.services.           *)
(*                                                                         *)
(* Strings that the hub only compares are TLA+ strings.  The tokens of the *)
(* service command are sequences of characters, so that option names and   *)
(* numbers are obtained by parsing the token text.                         *)
(***************************************************************************)
EXTENDS Integers, Sequences, FiniteSets, TLC

VARIABLES pc, c, writes, attempt, authenticated, servers, sinceCull, culled

vars == <<pc, c, writes, attempt, authenticated, servers, sinceCull, culled>>

(* ---------------------------- bounds ----------------------------------- *)

\* No server is followed for longer than this many seconds after its start.
MaxSessionAge == 2400

\* Usernames and passwords tried at the login form.
Usernames == {"student", "teacher", "admin", "guest"}
Passwords == {"password", "letmein"}

\* Lengths of the steps by which the clock advances, in seconds.
Deltas == {150, 300}

(* ------------------- values assigned by the file ----------------------- *)

ip_loopback == "127.0.0.1"

ip == "0.0.0.0"

port == 8000

authenticator_class == "jupyterhub.auth.DummyAuthenticator"

password == "password"

spawner_class == "jupyterhub.spawner.SimpleLocalProcessSpawner"

notebook_dir == "~/notebooks"

default_url == "/lab"

allowed_users_without_teacher == {"student", "admin"}

allowed_users_with_guest == {"student", "teacher", "admin", "guest"}

allowed_users == {"student", "teacher", "admin"}

admin_users_root == {"root"}

admin_users == {"admin"}

start_timeout == 60

http_timeout_long == 60 + 30

http_timeout == 30

cull_command_every_600 ==
    << <<"p","y","t","h","o","n","3">>,
       <<"-","m">>,
       <<"j","u","p","y","t","e","r","h","u","b","_","i","d","l","e","_","c","u","l","l","e","r">>,
       <<"-","-","t","i","m","e","o","u","t","=","1","8","0","0">>,
       <<"-","-","c","u","l","l","-","e","v","e","r","y","=","6","0","0">>,
       <<"-","-","m","a","x","-","a","g","e","=","0">> >>

cull_command_max_age_1800 ==
    << <<"p","y","t","h","o","n","3">>,
       <<"-","m">>,
       <<"j","u","p","y","t","e","r","h","u","b","_","i","d","l","e","_","c","u","l","l","e","r">>,
       <<"-","-","t","i","m","e","o","u","t","=","1","8","0","0">>,
       <<"-","-","c","u","l","l","-","e","v","e","r","y","=","3","0","0">>,
       <<"-","-","m","a","x","-","a","g","e","=","1","8","0","0">> >>

cull_command ==
    << <<"p","y","t","h","o","n","3">>,
       <<"-","m">>,
       <<"j","u","p","y","t","e","r","h","u","b","_","i","d","l","e","_","c","u","l","l","e","r">>,
       <<"-","-","t","i","m","e","o","u","t","=","1","8","0","0">>,
       <<"-","-","c","u","l","l","-","e","v","e","r","y","=","3","0","0">>,
       <<"-","-","m","a","x","-","a","g","e","=","0">> >>

services_with_second ==
    << [name |-> "cull-idle", admin |-> TRUE, command |-> cull_command],
       [name |-> "portal", admin |-> TRUE, command |-> << <<"p","y","t","h","o","n","3">> >>] >>

services ==
    << [name |-> "cull-idle", admin |-> TRUE, command |-> cull_command] >>

cookie_secret_file == "/srv/jupyterhub/jupyterhub_cookie_secret"

db_url == "sqlite:////srv/jupyterhub/jupyterhub.sqlite"

log_level == "INFO"

(* ------------------- the statements of the file ------------------------ *)

BasicSection ==
    << [key |-> "JupyterHub.ip", value |-> ip],
       [key |-> "JupyterHub.port", value |-> port] >>

AuthSection ==
    << [key |-> "JupyterHub.authenticator_class", value |-> authenticator_class],
       [key |-> "DummyAuthenticator.password", value |-> password] >>

SpawnerSection ==
    << [key |-> "JupyterHub.spawner_class", value |-> spawner_class],
       [key |-> "Spawner.notebook_dir", value |-> notebook_dir],
       [key |-> "Spawner.default_url", value |-> default_url] >>

UsersSection ==
    << [key |-> "Authenticator.allowed_users", value |-> allowed_users],
       [key |-> "Authenticator.admin_users", value |-> admin_users] >>

TimeoutSection ==
    << [key |-> "Spawner.start_timeout", value |-> start_timeout],
       [key |-> "Spawner.http_timeout", value |-> http_timeout] >>

ServicesSection ==
    << [key |-> "JupyterHub.services", value |-> services] >>

SecuritySection ==
    << [key |-> "JupyterHub.cookie_secret_file", value |-> cookie_secret_file],
       [key |-> "JupyterHub.db_url", value |-> db_url] >>

LoggingSection_reassigns_port ==
    << [key |-> "JupyterHub.log_level", value |-> log_level],
       [key |-> "JupyterHub.port", value |-> 8888] >>

LoggingSection ==
    << [key |-> "JupyterHub.log_level", value |-> log_level] >>

Program ==
    BasicSection \o AuthSection \o SpawnerSection \o UsersSection
      \o TimeoutSection \o ServicesSection \o SecuritySection \o LoggingSection

\* The file has been executed to its end.
Loaded == pc = Len(Program) + 1

\* c.<key> = value
SetAttr(cfg, key, value) == (key :> value) @@ cfg

\* get_config(): a record with no key set.
get_config == [k \in {} |-> 0]

(* ------------------------ the load of the file ------------------------- *)

\* One assignment statement of the file: c.<key> = <value>.
ExecStatement ==
    /\ pc <= Len(Program)
    /\ c' = SetAttr(c, Program[pc].key, Program[pc].value)
    /\ writes' = SetAttr(writes, Program[pc].key,
                         IF Program[pc].key \in DOMAIN writes
                         THEN writes[Program[pc].key] + 1 ELSE 1)
    /\ pc' = pc + 1
    /\ UNCHANGED <<attempt, authenticated, servers, sinceCull, culled>>

(* --------------- the hub's authenticator, as configured ---------------- *)

\* The dummy authenticator: with a shared password set, a login is accepted
\* exactly when the password given equals it; with none set, always.
authenticate(username, pw) ==
    IF c["DummyAuthenticator.password"] # ""
    THEN pw = c["DummyAuthenticator.password"]
    ELSE TRUE

\* The allow-list is the set of usernames permitted to authenticate.
check_allowed(username) == username \in c["Authenticator.allowed_users"]

get_authenticated_user(username, pw) ==
    authenticate(username, pw) /\ check_allowed(username)

\* A login attempt at the hub's login form.
Login(username, pw) ==
    /\ Loaded
    /\ c["JupyterHub.authenticator_class"] = "jupyterhub.auth.DummyAuthenticator"
    /\ attempt' = [made |-> TRUE, username |-> username, password |-> pw,
                   accepted |-> get_authenticated_user(username, pw)]
    /\ authenticated' = IF get_authenticated_user(username, pw)
                        THEN authenticated \cup {username}
                        ELSE authenticated
    /\ UNCHANGED <<pc, c, writes, servers, sinceCull, culled>>

(* ------------------ the cull-idle service, as declared ----------------- *)

StartsWith(tok, prefix) ==
    /\ Len(tok) >= Len(prefix)
    /\ SubSeq(tok, 1, Len(prefix)) = prefix

\* A token of the command line that begins with a dash.
IsFlag(tok) == StartsWith(tok, <<"-">>)

\* A token of the form --name=value.
IsOption(tok) ==
    /\ StartsWith(tok, <<"-", "-">>)
    /\ \E i \in 3..Len(tok) : tok[i] = "="

EqPos(tok) == CHOOSE i \in 3..Len(tok) :
                 /\ tok[i] = "="
                 /\ \A j \in 3..(i - 1) : tok[j] # "="

OptionName(tok) == SubSeq(tok, 3, EqPos(tok) - 1)

OptionText(tok) == SubSeq(tok, EqPos(tok) + 1, Len(tok))

DigitVal(ch) ==
    CASE ch = "0" -> 0 [] ch = "1" -> 1 [] ch = "2" -> 2 [] ch = "3" -> 3
      [] ch = "4" -> 4 [] ch = "5" -> 5 [] ch = "6" -> 6 [] ch = "7" -> 7
      [] ch = "8" -> 8 [] ch = "9" -> 9

RECURSIVE ParseInt(_)
ParseInt(text) ==
    IF text = <<>> THEN 0
    ELSE ParseInt(SubSeq(text, 1, Len(text) - 1)) * 10 + DigitVal(text[Len(text)])

\* The integer value of option --name in the command, or the default.
Option(command, name, default) ==
    IF \E i \in DOMAIN command : IsOption(command[i]) /\ OptionName(command[i]) = name
    THEN LET last == CHOOSE i \in DOMAIN command :
                        /\ IsOption(command[i]) /\ OptionName(command[i]) = name
                        /\ \A j \in DOMAIN command :
                             (IsOption(command[j]) /\ OptionName(command[j]) = name) => j <= i
         IN  ParseInt(OptionText(command[last]))
    ELSE default

\* The service's command runs the idle culler: python3 -m jupyterhub_idle_culler ...
RunsCuller(command) ==
    /\ Len(command) >= 3
    /\ SubSeq(command, 1, 3) =
         << <<"p","y","t","h","o","n","3">>, <<"-","m">>,
            <<"j","u","p","y","t","e","r","h","u","b","_","i","d","l","e","_","c","u","l","l","e","r">> >>

CullerCommand ==
    LET i == CHOOSE i \in DOMAIN c["JupyterHub.services"] :
                 RunsCuller(c["JupyterHub.services"][i].command)
    IN  c["JupyterHub.services"][i].command

CullerDeclared ==
    \E i \in DOMAIN c["JupyterHub.services"] :
        RunsCuller(c["JupyterHub.services"][i].command)

inactive_limit == Option(CullerCommand, <<"t","i","m","e","o","u","t">>, 600)

cull_every ==
    LET every == Option(CullerCommand, <<"c","u","l","l","-","e","v","e","r","y">>, 0)
    IN  IF every = 0 THEN inactive_limit \div 2 ELSE every

max_age == Option(CullerCommand, <<"m","a","x","-","a","g","e">>, 0)

\* The culler's decision for one running server.
should_cull(server) ==
    \/ server.idle >= inactive_limit
    \/ (max_age # 0 /\ server.age >= max_age)

(* ------------------------ servers and the clock ------------------------ *)

Stopped == [running |-> FALSE, idle |-> 0, age |-> 0]

\* An authenticated user starts their single-user server.  Servers are
\* followed one at a time: the culler decides for each server on its own.
Spawn(username) ==
    /\ Loaded
    /\ username \in authenticated
    /\ \A u \in Usernames : ~servers[u].running
    /\ servers' = [servers EXCEPT ![username] = [running |-> TRUE, idle |-> 0, age |-> 0]]
    /\ UNCHANGED <<pc, c, writes, attempt, authenticated, sinceCull, culled>>

\* A running server sees activity: its idle time starts again from zero.
Activity(username) ==
    /\ Loaded
    /\ servers[username].running
    /\ servers[username].idle > 0
    /\ servers' = [servers EXCEPT ![username].idle = 0]
    /\ UNCHANGED <<pc, c, writes, attempt, authenticated, sinceCull, culled>>

\* d seconds pass.  The culler's pass is not overrun: the clock stops at the
\* moment a pass is due, and the pass happens there.  culled holds what the
\* pass just made has stopped, and is emptied when the clock moves on.
Advance(d) ==
    /\ Loaded
    /\ CullerDeclared => sinceCull + d <= cull_every
    /\ \A u \in Usernames : servers[u].running => servers[u].age + d <= MaxSessionAge
    /\ \E u \in Usernames : servers[u].running
    /\ servers' = [u \in Usernames |->
                     IF servers[u].running
                     THEN [servers[u] EXCEPT !.idle = @ + d, !.age = @ + d]
                     ELSE servers[u]]
    /\ sinceCull' = IF CullerDeclared THEN sinceCull + d ELSE sinceCull
    /\ culled' = {}
    /\ UNCHANGED <<pc, c, writes, attempt, authenticated>>

\* One pass of the culler: every running server it decides to cull is stopped.
CullPass ==
    /\ Loaded
    /\ CullerDeclared
    /\ sinceCull = cull_every
    /\ culled' = {[username |-> u, idle |-> servers[u].idle, age |-> servers[u].age] :
                    u \in {v \in Usernames : servers[v].running /\ should_cull(servers[v])}}
    /\ servers' = [u \in Usernames |->
                     IF servers[u].running /\ should_cull(servers[u])
                     THEN Stopped ELSE servers[u]]
    /\ sinceCull' = 0
    /\ UNCHANGED <<pc, c, writes, attempt, authenticated>>

(* --------------------------- specification ----------------------------- *)

Init ==
    /\ pc = 1
    /\ c = get_config
    /\ writes = [k \in {} |-> 0]
    /\ attempt = [made |-> FALSE, username |-> "", password |-> "", accepted |-> FALSE]
    /\ authenticated = {}
    /\ servers = [u \in Usernames |-> Stopped]
    /\ sinceCull = 0
    /\ culled = {}

Next ==
    \/ ExecStatement
    \/ \E u \in Usernames, pw \in Passwords : Login(u, pw)
    \/ \E u \in Usernames : Spawn(u)
    \/ \E u \in Usernames : Activity(u)
    \/ \E d \in Deltas : Advance(d)
    \/ CullPass

Spec == Init /\ [][Next]_vars

(* ------------------------------ claims --------------------------------- *)

\* The tokens of the command that are options of the form --name=value.
OptionTokens(command) == {command[i] : i \in {j \in DOMAIN command : IsOption(command[j])}}

\* The tokens of the command that begin with a dash.
FlagTokens(command) == {command[i] : i \in {j \in DOMAIN command : IsFlag(command[j])}}

TimeoutToken == <<"-","-","t","i","m","e","o","u","t","=","1","8","0","0">>
CullEveryToken == <<"-","-","c","u","l","l","-","e","v","e","r","y","=","3","0","0">>
MaxAgeToken == <<"-","-","m","a","x","-","a","g","e","=","0">>

\* C1: once the file is loaded, Authenticator.allowed_users is exactly
\* {student, teacher, admin} (three names) and Authenticator.admin_users is
\* exactly {admin} (one name).
C1_AllowedAndAdminUsers ==
    Loaded =>
      /\ c["Authenticator.allowed_users"] = {"student", "teacher", "admin"}
      /\ Cardinality(c["Authenticator.allowed_users"]) = 3
      /\ c["Authenticator.admin_users"] = {"admin"}
      /\ Cardinality(c["Authenticator.admin_users"]) = 1

C1_Witness ==
    /\ Loaded
    /\ writes["Authenticator.allowed_users"] = 1
    /\ writes["Authenticator.admin_users"] = 1

\* C2 as stated: the command line of the cull-idle service carries four
\* flags with literal values, among them --timeout=1800, --cull-every=300
\* and --max-age=0.
C2_FourValuedFlags ==
    Loaded =>
      /\ {TimeoutToken, CullEveryToken, MaxAgeToken}
           \subseteq OptionTokens(c["JupyterHub.services"][1].command)
      /\ Cardinality(OptionTokens(c["JupyterHub.services"][1].command)) = 4

\* C2 as amended: the command line of the cull-idle service carries exactly
\* three flags with literal values, --timeout=1800, --cull-every=300 and
\* --max-age=0, which the culler reads as 1800, 300 and 0; the only other
\* token that begins with a dash is the interpreter's -m, which has no value.
C2_ThreeValuedFlags ==
    Loaded =>
      /\ OptionTokens(c["JupyterHub.services"][1].command)
           = {TimeoutToken, CullEveryToken, MaxAgeToken}
      /\ Cardinality(OptionTokens(c["JupyterHub.services"][1].command)) = 3
      /\ FlagTokens(c["JupyterHub.services"][1].command)
           = {TimeoutToken, CullEveryToken, MaxAgeToken, <<"-", "m">>}
      /\ inactive_limit = 1800
      /\ cull_every = 300
      /\ max_age = 0

C2_Witness ==
    /\ Loaded
    /\ Len(c["JupyterHub.services"][1].command) = 6
    /\ sinceCull = 300

\* C3: once the file is loaded, the hub listens on all interfaces, port
\* 8000: JupyterHub.ip is '0.0.0.0' and JupyterHub.port is 8000.
C3_ListenEndpoint ==
    Loaded =>
      /\ c["JupyterHub.ip"] = "0.0.0.0"
      /\ c["JupyterHub.port"] = 8000

C3_Witness ==
    /\ Loaded
    /\ writes["JupyterHub.ip"] = 1
    /\ writes["JupyterHub.port"] = 1

\* C4: once the file is loaded, Spawner.start_timeout is 60 and
\* Spawner.http_timeout is 30, so the liveness-check deadline is not longer
\* than the spawn deadline.
C4_Timeouts ==
    Loaded =>
      /\ c["Spawner.start_timeout"] = 60
      /\ c["Spawner.http_timeout"] = 30
      /\ c["Spawner.http_timeout"] <= c["Spawner.start_timeout"]

C4_Witness ==
    /\ Loaded
    /\ writes["Spawner.start_timeout"] = 1
    /\ writes["Spawner.http_timeout"] = 1

\* C5: the record is built once and not mutated afterwards: no statement
\* reassigns or deletes a key set by an earlier one, every key the file sets
\* is assigned exactly once, and in every state after the load each field
\* holds the value of its assignment, whatever the hub does.
C5_BuiltOnce ==
    /\ [](Loaded =>
            /\ DOMAIN c = {Program[i].key : i \in DOMAIN Program}
            /\ \A i \in DOMAIN Program :
                 /\ writes[Program[i].key] = 1
                 /\ c[Program[i].key] = Program[i].value)
    /\ [][\A k \in DOMAIN c : k \in DOMAIN c' /\ c'[k] = c[k]]_vars
    /\ [][Loaded => c' = c]_vars

C5_Witness ==
    /\ Loaded
    /\ attempt.made
    /\ culled # {}
    /\ Cardinality(DOMAIN c) = 15

\* C6: with the dummy authenticator and DummyAuthenticator.password as in
\* the file, a login attempt by a username of the allow-list is accepted
\* whatever the password.
C6_AnyPasswordAccepted ==
    (attempt.made /\ attempt.username \in c["Authenticator.allowed_users"])
      => attempt.accepted

\* C7: the allow-list is closed: every authenticated user is one of student,
\* teacher, admin; a login attempt by any other username is rejected
\* whatever the password, and leaves the set of authenticated users as it was.
C7_AllowListClosed ==
    /\ [](/\ authenticated \subseteq {"student", "teacher", "admin"}
          /\ (attempt.made /\ attempt.username \notin {"student", "teacher", "admin"})
               => ~attempt.accepted)
    /\ [][(attempt' # attempt /\ attempt'.username \notin {"student", "teacher", "admin"})
            => authenticated' = authenticated]_vars

C7_Witness ==
    /\ attempt.made
    /\ attempt.username = "guest"
    /\ attempt.password = "password"
    /\ ~attempt.accepted
    /\ authenticated = {"student", "teacher", "admin"}

\* C8: with --timeout=1800 --cull-every=300 --max-age=0, a server idle for
\* 1800 seconds is stopped at the next pass of the culler, so no running
\* server has been idle for 1800 + 300 seconds, and right after a pass none
\* for 1800; a server stopped by the culler had been idle for at least 1800
\* seconds, whatever its age.
C8_IdleCull ==
    /\ \A u \in Usernames :
         servers[u].running => servers[u].idle < 1800 + sinceCull
    /\ \A u \in Usernames :
         servers[u].running => servers[u].idle < 1800 + 300
    /\ \A x \in culled : x.idle >= 1800 /\ x.idle < 1800 + 300

C8_Witness ==
    \E x \in culled : x.idle = 1800 /\ x.age >= 1800 + 300

\* C9: once the file is loaded, JupyterHub.services is a sequence of exactly
\* one service, named 'cull-idle', with admin true, whose command starts
\* with python3 -m jupyterhub_idle_culler.
C9_OneService ==
    Loaded =>
      /\ Len(c["JupyterHub.services"]) = 1
      /\ c["JupyterHub.services"][1].name = "cull-idle"
      /\ c["JupyterHub.services"][1].admin = TRUE
      /\ RunsCuller(c["JupyterHub.services"][1].command)

C9_Witness ==
    /\ Loaded
    /\ writes["JupyterHub.services"] = 1
    /\ DOMAIN c["JupyterHub.services"] = {1}

\* C10: every admin user is an allowed user: in the loaded record
\* Authenticator.admin_users is a subset of Authenticator.allowed_users.
C10_AdminsAllowed ==
    Loaded => c["Authenticator.admin_users"] \subseteq c["Authenticator.allowed_users"]

C10_Witness ==
    /\ Loaded
    /\ c["Authenticator.admin_users"] # {}
    /\ "admin" \in authenticated

====
